---- MODULE Spec2Model ----
(***************************************************************************)
(* tiny-ts-result: the Err / Result value model and the exception bridge   *)
(* (exceptionToErr, errToException, wrap, wrapUnknown, wrapInstanceOf).    *)
(*                                                                         *)
(* JavaScript values are records.  A primitive is [t, v]; an object is     *)
(* [t, id, cls, msgProp, message, cause, error, trap].  Two objects are    *)
(* the same reference exactly when the records are equal: every object     *)
(* the library allocates gets a new id, and the objects that exist before  *)
(* the calls under study carry id 0 and differ in their contents.          *)
(***************************************************************************)
EXTENDS Integers, Sequences, FiniteSets, TLC

VARIABLES nextId, start, op, arg, out, from, batch, calls, argAfter

vars == <<nextId, start, op, arg, out, from, batch, calls, argAfter>>

\* Number of objects the library may allocate in one behaviour.
MaxAlloc == 4

\* Longest sequence of Results, and of operations in a batch.
MaxBatch == 3

(***************************************************************************)
(* Values                                                                  *)
(***************************************************************************)
Prim(t, v) == [t |-> t, v |-> v]

Undefined == Prim("undefined", "")

Str(s) == Prim("string", s)

Primitives ==
  { Undefined, Prim("null", ""), Prim("number", "0"), Prim("number", "67"),
    Prim("boolean", "true"), Prim("boolean", "false"), Prim("symbol", "s"),
    Str(""), Str("ab"), Str("useless-junk") }

\* msgProp: how the object answers `"message" in o` and `o.message`:
\*   "none" no such property, "data" a data property holding `message`,
\*   "getter" an accessor returning `message`, "getterThrows" an accessor
\*   raising `message`.
\* trap: "none" an ordinary object, "benign" a Proxy with no traps,
\*   "throws" a Proxy whose getPrototypeOf trap raises.
Obj(id, t, cls, msgProp, message, cause, error, trap) ==
  [ t |-> t, id |-> id, cls |-> cls, msgProp |-> msgProp, message |-> message,
    cause |-> cause, error |-> error, trap |-> trap ]

Plain(cls, msgProp, message, cause) ==
  Obj(0, "object", cls, msgProp, message, cause, Undefined, "none")

\* The cause of an object whose cause is that object itself
\* (const e = new Error("loop"); e.cause = e).
SelfRef == Prim("self", "")

\* {data: 5}: an object with no message field.
DataCause == Plain("Object", "none", Undefined, Undefined)

\* What a raising Proxy trap raises.
TrapThrown == Plain("Error", "data", Str("trap"), Undefined)

\* What a raising message accessor raises.
GetterThrown == Plain("Error", "data", Str("getter"), Undefined)

\* The exception classes of the tests: class CustomError extends Error {},
\* class MoreCustomError extends CustomError {}, class Error2 extends Error {}.
ErrorClasses == {"Error", "CustomError", "MoreCustomError", "Error2"}

Parent(c) ==
  CASE c = "MoreCustomError" -> "CustomError"
    [] c = "CustomError" -> "Error"
    [] c = "Error2" -> "Error"
    [] c \in {"Error", "Array", "Function", "Promise", "Foo"} -> "Object"
    [] OTHER -> "null"

RECURSIVE ProtoChain(_)
ProtoChain(c) == IF c = "null" THEN {} ELSE {c} \cup ProtoChain(Parent(c))

ErrorObjects ==
  { Plain(c, "data", Str("fail"), Undefined) : c \in ErrorClasses }
  \cup { Plain("Error", "data", Str("my error"), DataCause),
         Plain("Error", "data", Prim("number", "0"), Undefined),
         Plain("Error2", "getterThrows", GetterThrown, Undefined),
         Plain("Error", "data", Str("loop"), SelfRef),
         TrapThrown }

PlainObjects ==
  { Plain("Object", "data", Str("failed"), Undefined),
    Plain("Object", "data", Str("my error"), DataCause),
    DataCause,
    Plain("Object", "data", Prim("boolean", "false"), Undefined),
    Plain("Object", "data", Prim("number", "0"), Undefined),
    Plain("Object", "data", Prim("symbol", "s"), Undefined),
    Plain("Foo", "data", Str("foreign"), Undefined),
    Plain("Object", "getter", Str("computed"), Undefined),
    Plain("Object", "getterThrows", GetterThrown, Undefined),
    Plain("Promise", "none", Undefined, Undefined),
    Plain("Array", "none", Undefined, Undefined),
    Plain("Array", "data", Str("array"), Undefined),
    Obj(0, "function", "Function", "none", Undefined, Undefined, Undefined, "none"),
    Obj(0, "function", "Function", "data", Str("function"), Undefined, Undefined, "none"),
    Obj(0, "object", "Object", "none", Undefined, Undefined, Undefined, "benign"),
    Obj(0, "object", "Object", "none", Undefined, Undefined, Undefined, "throws"),
    Obj(0, "object", "Object", "data", Str("proxied"), Undefined, Undefined, "throws") }

BaseValues == Primitives \cup ErrorObjects \cup PlainObjects

IsObject(x) == x.t \in {"object", "function"}

IsResult(x) == "isOk" \in DOMAIN x

\* x is a value that can be thrown or passed on (not a Result).
IsValue(x) == "t" \in DOMAIN x

(***************************************************************************)
(* Outcomes of a call: a returned value or a raised value, with the        *)
(* allocation counter after the call.                                      *)
(***************************************************************************)
Return(v, nid) == [kind |-> "return", val |-> v, nid |-> nid]

Raise(v, nid) == [kind |-> "raise", val |-> v, nid |-> nid]

\* The outcome r of an operation whose argument is x when it ends: the
\* argument as the operation's assignments have left it.
Leaving(x, r) == [kind |-> r.kind, val |-> r.val, nid |-> r.nid, after |-> x]

\* The argument was not followed through the call.
Untracked == [t |-> "untracked", v |-> ""]

(***************************************************************************)
(* The host language's operators the library uses                          *)
(***************************************************************************)
\* typeof x
TypeOf(x) == IF x.t = "null" THEN "object" ELSE x.t

\* Array.isArray(x)
IsArray(x) == IsObject(x) /\ x.cls = "Array"

\* x instanceof C: a primitive is no instance; the prototype chain of a
\* Proxy is read through its getPrototypeOf trap, which may raise.
InstanceOf(x, C) ==
  IF ~IsObject(x) THEN [kind |-> "return", val |-> FALSE]
  ELSE IF x.trap = "throws" THEN [kind |-> "raise", val |-> TrapThrown]
  ELSE [kind |-> "return", val |-> C \in ProtoChain(x.cls)]

\* x.message on an object: a data property or an accessor, which may raise.
GetMessage(x) ==
  IF x.msgProp = "getterThrows" THEN [kind |-> "raise", val |-> x.message]
  ELSE IF x.msgProp = "none" THEN [kind |-> "return", val |-> Undefined]
  ELSE [kind |-> "return", val |-> x.message]

\* ToString(message) as the Error constructor applies it.
ToStringJS(v) ==
  CASE v.t = "string" -> v
    [] v.t \in {"number", "boolean"} -> Str(v.v)
    [] v.t = "null" -> Str("null")
    [] v.t = "undefined" -> Str("")
    [] OTHER -> Str("[object Object]")

\* new constructor(message, { cause }) for a class that keeps Error's
\* constructor (class Error2 extends Error {}).
NewError(constructor, message, cause, nid) ==
  Obj(nid, "object", constructor, "data", ToStringJS(message), cause,
      Undefined, "none")

(***************************************************************************)
(* error.ts                                                                *)
(***************************************************************************)
makeErr(message, cause, nid) ==
  Obj(nid, "object", "Object", "data", message, cause, Undefined, "none")

makeCause(error, nid) ==
  Obj(nid, "object", "Object", "none", Undefined, Undefined, error, "none")

\* An unknownHasMessageField without the Array.isArray test.
unknownHasMessageField_arraysToo(value) ==
  IF ~( TypeOf(value) = "object"
        /\ value.t # "null"
        /\ value.msgProp # "none" )
  THEN [kind |-> "return", val |-> FALSE]
  ELSE LET m == GetMessage(value) IN
       IF m.kind = "raise" THEN m
       ELSE [kind |-> "return", val |-> TypeOf(m.val) = "string"]

unknownHasMessageField(value) ==
  IF ~( TypeOf(value) = "object"
        /\ value.t # "null"
        /\ ~IsArray(value)
        /\ value.msgProp # "none" )
  THEN [kind |-> "return", val |-> FALSE]
  ELSE LET m == GetMessage(value) IN
       IF m.kind = "raise" THEN m
       ELSE [kind |-> "return", val |-> TypeOf(m.val) = "string"]

\* An exceptionToErr that copies message and cause into a new Err
\* instead of returning an error-like value itself.
exceptionToErr_copy(error, nid) ==
  Leaving(error,
    LET inst == InstanceOf(error, "Error") IN
    IF inst.kind = "raise" THEN Raise(inst.val, nid)
    ELSE LET has == unknownHasMessageField(error) IN
         IF has.kind = "raise" THEN Raise(has.val, nid)
         ELSE IF inst.val \/ has.val
         THEN Return(makeErr(error.message, error.cause, nid), nid + 1)
         ELSE Return(makeErr(Str("Unknown error"), makeCause(error, nid), nid + 1),
                     nid + 2))

\* An exceptionToErr that uses a raised string of three or more characters
\* as the message.
exceptionToErr_stringAsMessage(error, nid) ==
  Leaving(error,
    LET inst == InstanceOf(error, "Error") IN
    IF inst.kind = "raise" THEN Raise(inst.val, nid)
    ELSE IF inst.val THEN Return(error, nid)
    ELSE IF TypeOf(error) = "string" /\ Len(error.v) >= 3
    THEN Return(makeErr(error, Undefined, nid), nid + 1)
    ELSE LET has == unknownHasMessageField(error) IN
         IF has.kind = "raise" THEN Raise(has.val, nid)
         ELSE IF has.val THEN Return(error, nid)
         ELSE Return(makeErr(Str("Unknown error"), makeCause(error, nid), nid + 1),
                     nid + 2))

\* An exceptionToErr that passes only Error instances through.
exceptionToErr_onlyErrors(error, nid) ==
  Leaving(error,
    LET inst == InstanceOf(error, "Error") IN
    IF inst.kind = "raise" THEN Raise(inst.val, nid)
    ELSE IF inst.val THEN Return(error, nid)
    ELSE Return(makeErr(Str("Unknown error"), makeCause(error, nid), nid + 1),
                nid + 2))

\* An exceptionToErr that remembers it has built an Err before and says so
\* in the message of the next one.
exceptionToErr_remembers(error, nid) ==
  Leaving(error,
    LET inst == InstanceOf(error, "Error") IN
    IF inst.kind = "raise" THEN Raise(inst.val, nid)
    ELSE IF inst.val THEN Return(error, nid)
    ELSE LET has == unknownHasMessageField(error) IN
         IF has.kind = "raise" THEN Raise(has.val, nid)
         ELSE IF has.val THEN Return(error, nid)
         ELSE Return(makeErr(IF nid = 1 THEN Str("Unknown error")
                             ELSE Str("Unknown error again"),
                             makeCause(error, nid), nid + 1), nid + 2))

\* An exceptionToErr that makes the new Err its own cause.
exceptionToErr_ownCause(error, nid) ==
  Leaving(error,
    LET inst == InstanceOf(error, "Error") IN
    IF inst.kind = "raise" THEN Raise(inst.val, nid)
    ELSE IF inst.val THEN Return(error, nid)
    ELSE LET has == unknownHasMessageField(error) IN
         IF has.kind = "raise" THEN Raise(has.val, nid)
         ELSE IF has.val THEN Return(error, nid)
         ELSE Return(makeErr(Str("Unknown error"), SelfRef, nid), nid + 1))

exceptionToErr(error, nid) ==
  Leaving(error,
    LET inst == InstanceOf(error, "Error") IN
    IF inst.kind = "raise" THEN Raise(inst.val, nid)
    ELSE IF inst.val THEN Return(error, nid)
    ELSE LET has == unknownHasMessageField(error) IN
         IF has.kind = "raise" THEN Raise(has.val, nid)
         ELSE IF has.val THEN Return(error, nid)
         ELSE Return(makeErr(Str("Unknown error"), makeCause(error, nid),
                             nid + 1), nid + 2))

\* An errToException that always constructs a new exception.
errToException_alwaysNew(err, constructor, nid) ==
  Leaving(err,
    LET m == GetMessage(err) IN
    IF m.kind = "raise" THEN Raise(m.val, nid)
    ELSE Return(NewError(constructor, m.val, makeCause(err, nid), nid + 1),
                nid + 2))

\* An errToException that passes err.cause on as the cause, dropping err.
errToException_causeOfErr(err, constructor, nid) ==
  Leaving(err,
    LET inst == InstanceOf(err, constructor) IN
    IF inst.kind = "raise" THEN Raise(inst.val, nid)
    ELSE IF inst.val THEN Return(err, nid)
    ELSE LET m == GetMessage(err) IN
         IF m.kind = "raise" THEN Raise(m.val, nid)
         ELSE Return(NewError(constructor, m.val, err.cause, nid), nid + 1))

\* An errToException that makes err itself an instance of the constructor
\* by giving it the constructor's prototype.
errToException_setPrototype(err, constructor, nid) ==
  LET inst == InstanceOf(err, constructor) IN
  IF inst.kind = "raise" THEN Leaving(err, Raise(inst.val, nid))
  ELSE IF inst.val THEN Leaving(err, Return(err, nid))
  ELSE Leaving([err EXCEPT !.cls = constructor],
               Return([err EXCEPT !.cls = constructor], nid))

errToException(err, constructor, nid) ==
  Leaving(err,
    LET inst == InstanceOf(err, constructor) IN
    IF inst.kind = "raise" THEN Raise(inst.val, nid)
    ELSE IF inst.val THEN Return(err, nid)
    ELSE LET m == GetMessage(err) IN
         IF m.kind = "raise" THEN Raise(m.val, nid)
         ELSE Return(NewError(constructor, m.val, makeCause(err, nid), nid + 1),
                     nid + 2))

(***************************************************************************)
(* result.ts                                                               *)
(***************************************************************************)
\* A makeResultOk that sets the discriminator of the other variant.
makeResultOk_wrongFlag(ok) == [isOk |-> FALSE, ok |-> ok, err |-> Undefined]

makeResultOk(ok) == [isOk |-> TRUE, ok |-> ok, err |-> Undefined]

\* A makeResultErr that sets the discriminator of the Ok variant.
makeResultErr_okFlag(err) == [isOk |-> TRUE, ok |-> Undefined, err |-> err]

makeResultErr(err) == [isOk |-> FALSE, ok |-> Undefined, err |-> err]

\* The boolean a type guard returns, as a value.
Bool(b) == Prim("boolean", IF b THEN "true" ELSE "false")

\* An isResultOk that looks at the payload instead of the discriminator.
isResultOk_byPayload(result) == result.ok # Undefined

isResultOk(result) == result.isOk

isResultErr(result) == ~result.isOk

\* A groupResults that adds each payload at the front of its array.
RECURSIVE groupResults_unshift(_)
groupResults_unshift(results) ==
  IF Len(results) = 0 THEN [oks |-> <<>>, errs |-> <<>>]
  ELSE LET result == results[Len(results)]
           before == groupResults_unshift(SubSeq(results, 1, Len(results) - 1))
       IN IF result.isOk
          THEN [oks |-> <<result.ok>> \o before.oks, errs |-> before.errs]
          ELSE [oks |-> before.oks, errs |-> <<result.err>> \o before.errs]

\* The pair [oks, errs] after the loop has visited every element of
\* results: the pair after the elements before the last one, with the
\* last one's payload pushed.
RECURSIVE groupResults(_)
groupResults(results) ==
  IF Len(results) = 0 THEN [oks |-> <<>>, errs |-> <<>>]
  ELSE LET result == results[Len(results)]
           before == groupResults(SubSeq(results, 1, Len(results) - 1))
       IN IF result.isOk
          THEN [oks |-> Append(before.oks, result.ok), errs |-> before.errs]
          ELSE [oks |-> before.oks, errs |-> Append(before.errs, result.err)]

(***************************************************************************)
(* wrapping.ts                                                             *)
(***************************************************************************)
\* A zero-argument operation either returns fn.val or raises fn.val;
\* running it is one call of fn.
RunFn(fn) == [kind |-> fn.does, val |-> fn.val, calls |-> <<"fn">>]

\* The outcome r of an operation that made the calls c to code given by
\* the caller: "fn" an invocation of fn, "new" of a constructor.
Calling(c, r) == [kind |-> r.kind, val |-> r.val, nid |-> r.nid, calls |-> c]

\* `undefined` given as the filter constructor of wrap.
NoConstructor == "undefined"

\* A wrapUnknown that puts the raised value into the Result as it is.
wrapUnknown_noConversion(fn, nid) ==
  LET r == RunFn(fn) IN
  Calling(r.calls,
    IF r.kind = "return" THEN Return(makeResultOk(r.val), nid)
    ELSE Return(makeResultErr(r.val), nid))

wrapUnknown(fn, nid) ==
  LET r == RunFn(fn) IN
  Calling(r.calls,
    IF r.kind = "return" THEN Return(makeResultOk(r.val), nid)
    ELSE LET e == exceptionToErr(r.val, nid) IN
         IF e.kind = "raise" THEN e
         ELSE Return(makeResultErr(e.val), e.nid))

\* A wrapInstanceOf that compares the class of the raised value with the
\* constructor, so that instances of subclasses are raised again.
wrapInstanceOf_exactClass(fn, constructor, nid) ==
  LET r == RunFn(fn) IN
  Calling(r.calls,
    IF r.kind = "return" THEN Return(makeResultOk(r.val), nid)
    ELSE IF IsObject(r.val) /\ r.val.cls = constructor
    THEN Return(makeResultErr(r.val), nid)
    ELSE Raise(r.val, nid))

\* A wrapInstanceOf that raises a new exception around what it does not
\* catch.
wrapInstanceOf_rethrowWrapped(fn, constructor, nid) ==
  LET r == RunFn(fn) IN
  Calling(r.calls,
    IF r.kind = "return" THEN Return(makeResultOk(r.val), nid)
    ELSE LET inst == InstanceOf(r.val, constructor) IN
         IF inst.kind = "raise" THEN Raise(inst.val, nid)
         ELSE IF inst.val THEN Return(makeResultErr(r.val), nid)
         ELSE Raise(NewError("Error", Str("Unexpected"), makeCause(r.val, nid),
                             nid + 1), nid + 2))

\* A wrapInstanceOf that constructs an instance of the filter constructor
\* to compare the raised value with.
wrapInstanceOf_constructs(fn, constructor, nid) ==
  LET r == RunFn(fn) IN
  IF r.kind = "return" THEN Calling(r.calls, Return(makeResultOk(r.val), nid))
  ELSE Calling(r.calls \o <<"new">>,
         LET inst == InstanceOf(r.val, constructor) IN
         IF inst.kind = "raise" THEN Raise(inst.val, nid + 1)
         ELSE IF inst.val THEN Return(makeResultErr(r.val), nid + 1)
         ELSE Raise(r.val, nid + 1))

wrapInstanceOf(fn, constructor, nid) ==
  LET r == RunFn(fn) IN
  Calling(r.calls,
    IF r.kind = "return" THEN Return(makeResultOk(r.val), nid)
    ELSE LET inst == InstanceOf(r.val, constructor) IN
         IF inst.kind = "raise" THEN Raise(inst.val, nid)
         ELSE IF inst.val THEN Return(makeResultErr(r.val), nid)
         ELSE Raise(r.val, nid))

\* A wrap that ignores the filter constructor.
wrap_alwaysUnknown(fn, onlyInstanceOf, nid) == wrapUnknown(fn, nid)

wrap(fn, onlyInstanceOf, nid) ==
  IF onlyInstanceOf # NoConstructor
  THEN wrapInstanceOf(fn, onlyInstanceOf, nid)
  ELSE wrapUnknown(fn, nid)

\* An unwrap that tests the success value for truthiness.
unwrap_truthyOk(result, errorConstructor, nid) ==
  Leaving(result,
    IF result.ok \notin { Undefined, Prim("null", ""), Prim("number", "0"),
                          Prim("boolean", "false"), Str("") }
    THEN Return(result.ok, nid)
    ELSE Raise(NewError("Error", Str("failed"), Undefined, nid), nid + 1))

\* An unwrap that always constructs with Error, whatever constructor it
\* is given.
unwrap_alwaysError(result, errorConstructor, nid) ==
  Leaving(result,
    IF result.isOk THEN Return(result.ok, nid)
    ELSE LET e == errToException(result.err, "Error", nid) IN
         Raise(e.val, e.nid))

unwrap(result, errorConstructor, nid) ==
  IF result.isOk THEN Leaving(result, Return(result.ok, nid))
  ELSE LET e == errToException(
                  result.err,
                  IF errorConstructor # NoConstructor THEN errorConstructor
                  ELSE "Error",
                  nid) IN
       Leaving([result EXCEPT !.err = e.after], Raise(e.val, e.nid))

(***************************************************************************)
(* The caller: one action per exported operation.  A caller that holds no  *)
(* outcome calls with the values that exist before the calls; a caller     *)
(* that holds the outcome of a call goes on with the value that call       *)
(* returned or raised, or lets go of it.                                   *)
(***************************************************************************)
NoFn == [does |-> "none", val |-> Undefined]

\* The caller holds no outcome of a previous call.
Fresh == out.kind = "none"

Inputs ==
  IF Fresh THEN BaseValues
  ELSE IF IsValue(out.val) THEN {out.val} ELSE {}

Fns == [does : {"return", "raise"}, val : Inputs]

\* The values a caller can hold under the static type Err: exception
\* objects, and objects whose message is a string.
ErrArgs ==
  { v \in Inputs :
      /\ v.t = "object"
      /\ ~IsArray(v)
      /\ \/ v.cls \in ErrorClasses
         \/ v.msgProp \in {"data", "getter"} /\ v.message.t = "string" }

\* The Results a caller can hold: made from the values above, or returned
\* by the previous call.
ResultArgs ==
  { makeResultOk(v) : v \in Inputs } \cup { makeResultErr(e) : e \in ErrArgs }
    \cup (IF out.kind = "return" /\ IsResult(out.val) THEN {out.val} ELSE {})

\* The Results a caller groups: Ok variants with a truthy and a falsy
\* payload, Err variants with a plain Err and an exception.
GroupArgs ==
  { makeResultOk(Str("ab")), makeResultOk(Prim("number", "0")),
    makeResultErr(Plain("Object", "data", Str("failed"), Undefined)),
    makeResultErr(Plain("Error", "data", Str("fail"), Undefined)) }

\* The operations of a batch: one that returns, one raising a primitive,
\* one raising an exception, one raising an object whose message accessor
\* raises.
BatchFns ==
  { [does |-> "return", val |-> Str("ab")],
    [does |-> "raise", val |-> Prim("number", "67")],
    [does |-> "raise", val |-> Plain("Error", "data", Str("fail"), Undefined)],
    [does |-> "raise",
     val |-> Plain("Object", "getterThrows", GetterThrown, Undefined)] }

\* The sequences over S of length at most n.
SeqsUpTo(S, n) == UNION { [1..k -> S] : k \in 0..n }

\* No batch is under way.
NoBatch == [pc |-> "idle", fns |-> <<>>, results |-> <<>>]

\* The constructors a caller gives as a filter: the exception classes, a
\* class that does not extend Error (class Foo { message = "foreign" })
\* and Array.
FilterClasses == ErrorClasses \cup {"Foo", "Array"}

NoArg == [fn |-> NoFn, ctor |-> NoConstructor, val |-> Undefined]

NoCall == [op |-> "none", val |-> Undefined, kind |-> "none"]

\* The value a call works on: what fn returns or raises, or the argument.
Subject(a) == IF a.fn.does # "none" THEN a.fn.val ELSE a.val

\* The operations whose outcome the caller follows into the next call.
TrackedOps == {"exceptionToErr", "wrap", "rewrap"}

\* The last call is one the caller follows: a tracked operation called
\* without a constructor.
Tracked == op \in TrackedOps /\ arg.ctor = NoConstructor

\* `from` remembers the previous call (its operation, the value it worked
\* on and how it ended) when that call is a tracked one and this call
\* works on the value it returned or raised. `calls` lists the calls the
\* operation made to code given by the caller, `argAfter` is the argument
\* as the operation has left it.
Done(name, a, r) ==
  /\ op' = name
  /\ arg' = a
  /\ out' = [kind |-> r.kind, val |-> r.val]
  /\ start' = nextId
  /\ nextId' = r.nid
  /\ calls' = IF "calls" \in DOMAIN r THEN r.calls ELSE <<>>
  /\ argAfter' = IF "after" \in DOMAIN r THEN r.after ELSE Untracked
  /\ from' = IF Tracked /\ out.kind # "none" /\ Subject(a) = out.val
             THEN [op |-> op, val |-> Subject(arg), kind |-> out.kind]
             ELSE NoCall

Init ==
  /\ nextId = 1
  /\ start = 1
  /\ op = "init"
  /\ arg = [fn |-> NoFn, ctor |-> NoConstructor, val |-> Undefined]
  /\ out = [kind |-> "none", val |-> Undefined]
  /\ from = NoCall
  /\ batch = NoBatch
  /\ calls = <<>>
  /\ argAfter = Untracked

\* A call made outside a batch.
Call(name, a, r) ==
  /\ batch.pc = "idle"
  /\ Done(name, a, r)
  /\ UNCHANGED batch

ExceptionToErr ==
  /\ nextId < MaxAlloc
  /\ \E x \in Inputs :
       Call("exceptionToErr", [fn |-> NoFn, ctor |-> NoConstructor, val |-> x],
            exceptionToErr(x, nextId))

ErrToException ==
  /\ nextId < MaxAlloc
  /\ \E err \in ErrArgs, K \in ErrorClasses :
       Call("errToException", [fn |-> NoFn, ctor |-> K, val |-> err],
            errToException(err, K, nextId))

WrapUnknown ==
  /\ nextId < MaxAlloc
  /\ \E fn \in Fns :
       Call("wrapUnknown", [fn |-> fn, ctor |-> NoConstructor, val |-> Undefined],
            wrapUnknown(fn, nextId))

WrapInstanceOf ==
  /\ nextId < MaxAlloc
  /\ \E fn \in Fns, C \in FilterClasses :
       Call("wrapInstanceOf", [fn |-> fn, ctor |-> C, val |-> Undefined],
            wrapInstanceOf(fn, C, nextId))

Wrap ==
  /\ nextId < MaxAlloc
  /\ \E fn \in Fns, C \in FilterClasses \cup {NoConstructor} :
       Call("wrap", [fn |-> fn, ctor |-> C, val |-> Undefined],
            wrap(fn, C, nextId))

Unwrap ==
  /\ nextId < MaxAlloc
  /\ \E result \in ResultArgs, K \in ErrorClasses \cup {NoConstructor} :
       Call("unwrap", [fn |-> NoFn, ctor |-> K, val |-> result],
            unwrap(result, K, nextId))

MakeResultOk ==
  /\ nextId < MaxAlloc
  /\ \E v \in Inputs :
       Call("makeResultOk", [fn |-> NoFn, ctor |-> NoConstructor, val |-> v],
            Return(makeResultOk(v), nextId))

MakeResultErr ==
  /\ nextId < MaxAlloc
  /\ \E e \in ErrArgs :
       Call("makeResultErr", [fn |-> NoFn, ctor |-> NoConstructor, val |-> e],
            Return(makeResultErr(e), nextId))

IsResultOk ==
  /\ nextId < MaxAlloc
  /\ \E result \in ResultArgs :
       Call("isResultOk", [fn |-> NoFn, ctor |-> NoConstructor, val |-> result],
            Leaving(result, Return(Bool(isResultOk(result)), nextId)))

IsResultErr ==
  /\ nextId < MaxAlloc
  /\ \E result \in ResultArgs :
       Call("isResultErr", [fn |-> NoFn, ctor |-> NoConstructor, val |-> result],
            Leaving(result, Return(Bool(isResultErr(result)), nextId)))

\* wrap(() => unwrap(result)): fn is a closure whose outcome is that of
\* unwrap with the default constructor; wrap runs it and goes on from
\* what unwrap has constructed.
Rewrap ==
  /\ nextId < MaxAlloc
  /\ \E result \in ResultArgs :
       LET u == unwrap(result, NoConstructor, nextId) IN
       Call("rewrap", [fn |-> NoFn, ctor |-> NoConstructor, val |-> result],
            wrap([does |-> u.kind, val |-> u.val], NoConstructor, u.nid))

GroupResults ==
  /\ nextId < MaxAlloc
  /\ Fresh
  /\ \E results \in SeqsUpTo(GroupArgs, MaxBatch) :
       Call("groupResults",
            [fn |-> NoFn, ctor |-> NoConstructor, val |-> [items |-> results]],
            Leaving([items |-> results],
                    Return(groupResults(results), nextId)))

\* example(): the caller starts mapping a sequence of operations.
BatchStart ==
  /\ nextId < MaxAlloc
  /\ batch.pc = "idle"
  /\ Fresh
  /\ \E fns \in SeqsUpTo(BatchFns, MaxBatch) :
       batch' = [pc |-> "running", fns |-> fns, results |-> <<>>]
  /\ op' = "example"
  /\ arg' = NoArg
  /\ out' = [kind |-> "none", val |-> Undefined]
  /\ start' = nextId
  /\ from' = NoCall
  /\ calls' = <<>>
  /\ argAfter' = Untracked
  /\ UNCHANGED nextId

\* map calls wrap on the next operation: a returned Result is collected,
\* a raise unwinds the map.
BatchWrap ==
  /\ batch.pc = "running"
  /\ Len(batch.results) < Len(batch.fns)
  /\ LET fn == batch.fns[Len(batch.results) + 1]
         r == wrap(fn, NoConstructor, nextId) IN
     /\ Done("wrap", [fn |-> fn, ctor |-> NoConstructor, val |-> Undefined], r)
     /\ batch' = IF r.kind = "return"
                 THEN [batch EXCEPT !.results = Append(@, r.val)]
                 ELSE [batch EXCEPT !.pc = "aborted"]

\* groupResults is called on the mapped Results.
BatchGroup ==
  /\ batch.pc = "running"
  /\ Len(batch.results) = Len(batch.fns)
  /\ Done("groupResults",
          [fn |-> NoFn, ctor |-> NoConstructor,
           val |-> [items |-> batch.results]],
          Leaving([items |-> batch.results],
                  Return(groupResults(batch.results), nextId)))
  /\ batch' = [batch EXCEPT !.pc = "grouped"]

\* example() returns, or the exception that unwound the map leaves it.
BatchEnd ==
  /\ batch.pc \in {"grouped", "aborted"}
  /\ batch' = NoBatch
  /\ op' = "example"
  /\ arg' = NoArg
  /\ out' = IF batch.pc = "grouped"
            THEN [kind |-> "return", val |-> Undefined]
            ELSE out
  /\ start' = nextId
  /\ from' = NoCall
  /\ calls' = <<>>
  /\ argAfter' = Untracked
  /\ UNCHANGED nextId

\* The caller lets go of the outcome it holds: the next call is made with
\* the values that exist before the calls. What the library has allocated
\* stays allocated.
Discard ==
  /\ batch.pc = "idle"
  /\ ~Fresh
  /\ op' = "init"
  /\ arg' = NoArg
  /\ out' = [kind |-> "none", val |-> Undefined]
  /\ start' = nextId
  /\ from' = NoCall
  /\ calls' = <<>>
  /\ argAfter' = Untracked
  /\ UNCHANGED <<nextId, batch>>

Next ==
  \/ ExceptionToErr
  \/ ErrToException
  \/ WrapUnknown
  \/ WrapInstanceOf
  \/ Wrap
  \/ Unwrap
  \/ MakeResultOk
  \/ MakeResultErr
  \/ IsResultOk
  \/ IsResultErr
  \/ Rewrap
  \/ GroupResults
  \/ BatchStart
  \/ BatchWrap
  \/ BatchGroup
  \/ BatchEnd
  \/ Discard

Spec == Init /\ [][Next]_vars

(***************************************************************************)
(* Vocabulary of the properties                                            *)
(***************************************************************************)
\* The call was wrap without a filter constructor, or wrapUnknown.
NoFilterCall ==
  \/ op = "wrapUnknown"
  \/ op = "wrap" /\ arg.ctor = NoConstructor

\* The call was wrap with a filter constructor, or wrapInstanceOf.
FilterCall ==
  \/ op = "wrapInstanceOf"
  \/ op = "wrap" /\ arg.ctor # NoConstructor

\* x is an instance of class C or of a subclass of C.
IsInstanceOfKind(x, C) ==
  IsObject(x) /\ x.trap # "throws" /\ C \in ProtoChain(x.cls)

\* The instance check of x against C answers no.
NotInstanceOfKind(x, C) ==
  \/ ~IsObject(x)
  \/ x.trap # "throws" /\ C \notin ProtoChain(x.cls)

\* x has a message that reads as a string.
HasStringMessage(x) ==
  IsObject(x) /\ x.msgProp \in {"data", "getter"} /\ x.message.t = "string"

\* x is what makeErr returns: a plain {message, cause} object.
MadeByMakeErr(x) ==
  /\ HasStringMessage(x)
  /\ x.t = "object" /\ x.cls = "Object" /\ x.msgProp = "data"
  /\ x.trap = "none" /\ x.error = Undefined

\* Error-like values: an Error instance, or a non-array value of typeof
\* "object" whose message reads as a string.
ErrorLike(x) ==
  /\ IsObject(x) /\ x.trap # "throws"
  /\ \/ "Error" \in ProtoChain(x.cls)
     \/ x.t = "object" /\ x.cls # "Array" /\ HasStringMessage(x)

\* Values that are not error-like: primitives, functions, arrays, objects
\* with no message field and objects whose message is not a string.
NotErrorLike(x) ==
  \/ ~IsObject(x)
  \/ /\ x.trap # "throws"
     /\ "Error" \notin ProtoChain(x.cls)
     /\ \/ x.t = "function"
        \/ x.cls = "Array"
        \/ x.msgProp = "none"
        \/ x.msgProp \in {"data", "getter"} /\ x.message.t # "string"

\* v was allocated by the last call.
IsFresh(v) == IsObject(v) /\ v.id >= start /\ v.id < nextId

\* c is {error: x}.
IsCauseOf(c, x) ==
  /\ IsObject(c) /\ c.t = "object" /\ c.cls = "Object" /\ c.trap = "none"
  /\ c.msgProp = "none" /\ c.cause = Undefined /\ c.error = x

\* e is a new Err {message: "Unknown error", cause: {error: x}}.
IsUnknownErrOf(e, x) ==
  /\ IsObject(e) /\ e.t = "object" /\ e.cls = "Object" /\ e.trap = "none"
  /\ e.msgProp = "data" /\ e.message = Str("Unknown error")
  /\ e.error = Undefined
  /\ IsCauseOf(e.cause, x)
  /\ IsFresh(e) /\ IsFresh(e.cause)

\* The last call returned the Err variant.
ReturnedErr == out.kind = "return" /\ IsResult(out.val) /\ ~out.val.isOk

(***************************************************************************)
(* Properties                                                              *)
(***************************************************************************)
\* C1: wrap without a filter constructor, and wrapUnknown, never raise:
\* whatever fn raises, the call returns an Err variant (isOk false, ok
\* undefined).
C1_NoFilterNeverRaises ==
  NoFilterCall =>
    /\ out.kind = "return"
    /\ arg.fn.does = "raise" => ReturnedErr /\ out.val.ok = Undefined

\* C2: when fn returns v without raising, wrap(fn), wrap(fn, C),
\* wrapUnknown(fn) and wrapInstanceOf(fn, C) all return
\* {isOk: true, ok: v, err: undefined}.
C2_ReturnBecomesOk ==
  (NoFilterCall \/ FilterCall) /\ arg.fn.does = "return" =>
    /\ out.kind = "return"
    /\ out.val = [isOk |-> TRUE, ok |-> arg.fn.val, err |-> Undefined]

C2_Witness ==
  /\ op = "wrap" /\ arg.ctor = "CustomError"
  /\ arg.fn = [does |-> "return", val |-> Str("useless-junk")]
  /\ out.kind = "return" /\ out.val.isOk /\ out.val.ok = Str("useless-junk")

\* C3 as stated: when fn raises x and wrap without a filter returns, the
\* err is x itself when x is an Error instance or an Err made by makeErr,
\* and otherwise a new Err "Unknown error" with cause {error: x}.
C3_Original ==
  NoFilterCall /\ arg.fn.does = "raise" /\ out.kind = "return" =>
    /\ ReturnedErr
    /\ IF IsInstanceOfKind(arg.fn.val, "Error") \/ MadeByMakeErr(arg.fn.val)
       THEN out.val.err = arg.fn.val
       ELSE IsUnknownErrOf(out.val.err, arg.fn.val)

\* C3 amended: when fn raises x, wrap without a filter returns an Err
\* variant whose err is x itself when x is error-like (an Error instance,
\* or any non-array object whose message reads as a string, made by
\* makeErr or not), and a new Err "Unknown error" with cause {error: x}
\* when x is a primitive, a function, an array or an object without a
\* string message.
C3_NoFilterErrIsConversion ==
  NoFilterCall /\ arg.fn.does = "raise" =>
    /\ ErrorLike(arg.fn.val) =>
         ReturnedErr /\ out.val.err = arg.fn.val /\ nextId = start
    /\ NotErrorLike(arg.fn.val) =>
         ReturnedErr /\ IsUnknownErrOf(out.val.err, arg.fn.val)

C3_Witness ==
  /\ op = "wrap" /\ arg.ctor = NoConstructor
  /\ arg.fn = [does |-> "raise",
               val |-> Plain("Foo", "data", Str("foreign"), Undefined)]
  /\ ReturnedErr /\ out.val.err = arg.fn.val

\* C4: with a filter constructor C, wrap / wrapInstanceOf returns an Err
\* variant exactly when fn raises an instance e of C (subclasses
\* included), and then err is the very object e.
C4_FilterCatchesInstances ==
  FilterCall =>
    /\ ReturnedErr <=>
         arg.fn.does = "raise" /\ IsInstanceOfKind(arg.fn.val, arg.ctor)
    /\ ReturnedErr => out.val.err = arg.fn.val /\ nextId = start

C4_Witness ==
  /\ op = "wrapInstanceOf" /\ arg.ctor = "CustomError"
  /\ arg.fn = [does |-> "raise",
               val |-> Plain("MoreCustomError", "data", Str("fail"), Undefined)]
  /\ ReturnedErr /\ out.val.err = arg.fn.val

\* C5: with a filter constructor C, when fn raises a value x that is not
\* an instance of C, no Result is returned: x itself propagates, neither
\* converted nor wrapped.
C5_FilterRethrowsOthers ==
  FilterCall /\ arg.fn.does = "raise"
             /\ NotInstanceOfKind(arg.fn.val, arg.ctor) =>
    out = [kind |-> "raise", val |-> arg.fn.val] /\ nextId = start

C5_Witness ==
  /\ op = "wrap" /\ arg.ctor = "MoreCustomError"
  /\ arg.fn = [does |-> "raise",
               val |-> Plain("CustomError", "data", Str("fail"), Undefined)]
  /\ out = [kind |-> "raise", val |-> arg.fn.val]

\* C6 as stated: every caught value that carries a string message field
\* (an Error instance, an Err made by makeErr, or any other value with a
\* string message) is returned by exceptionToErr as the same reference.
C6_Original ==
  op = "exceptionToErr" /\ HasStringMessage(arg.val) /\ out.kind = "return" =>
    out.val = arg.val

\* C6 amended: every caught value that is an Error instance, or a
\* non-array value of typeof "object" whose message reads as a string, is
\* returned by exceptionToErr as the same reference and nothing is
\* allocated; a function or an array is not returned by reference even
\* when it has a string message.
C6_ErrorLikePassesThrough ==
  op = "exceptionToErr" =>
    /\ ErrorLike(arg.val) =>
         out = [kind |-> "return", val |-> arg.val] /\ nextId = start
    /\ IsObject(arg.val) /\ (arg.val.t = "function" \/ arg.val.cls = "Array") =>
         out.kind = "return" /\ out.val # arg.val

C6_Witness ==
  /\ op = "exceptionToErr"
  /\ arg.val = Plain("Object", "data", Str("my error"), DataCause)
  /\ out = [kind |-> "return", val |-> arg.val]
  /\ nextId = start

\* C7: for every caught value that is not error-like (null, undefined,
\* numbers, booleans, symbols, strings of any length, functions, promises,
\* arrays, objects with no message field, objects whose message is not a
\* string) exceptionToErr returns a new Err with message "Unknown error"
\* and cause {error: caught}, the caught value kept as it is.
C7_OthersBecomeUnknownError ==
  op = "exceptionToErr" /\ NotErrorLike(arg.val) =>
    out.kind = "return" /\ IsUnknownErrOf(out.val, arg.val)

C7_Witness ==
  /\ op = "exceptionToErr"
  /\ arg.val = Str("useless-junk")
  /\ out.kind = "return"
  /\ out.val.message = Str("Unknown error")
  /\ out.val.cause.error = Str("useless-junk")

\* C8: exceptionToErr is total: for every raised value, proxies and
\* objects with an accessor message included, it returns an Err and never
\* raises.
C8_ExceptionToErrTotal ==
  op = "exceptionToErr" =>
    out.kind = "return" /\ IsObject(out.val) /\ ~IsResult(out.val)

\* C9: errToException(err, K) returns err itself, constructing nothing,
\* whenever err is an instance of K or of a subclass of K.
C9_InstanceReturnedUnchanged ==
  op = "errToException" /\ IsInstanceOfKind(arg.val, arg.ctor) =>
    out = [kind |-> "return", val |-> arg.val] /\ nextId = start

C9_Witness ==
  /\ op = "errToException" /\ arg.ctor = "Error"
  /\ arg.val = Plain("Error2", "data", Str("fail"), Undefined)
  /\ out = [kind |-> "return", val |-> arg.val]

\* An Err as its static type has it: the message reads as a string.
WellTypedErr(e) == e.trap # "throws" /\ HasStringMessage(e)

UnwrapKind == IF arg.ctor # NoConstructor THEN arg.ctor ELSE "Error"

\* C11: unwrap of an Ok variant returns its success value and never
\* raises, whether the constructor is omitted or is any exception
\* constructor; nothing is constructed.
C11_UnwrapOkReturnsValue ==
  op = "unwrap" /\ arg.val.isOk =>
    out = [kind |-> "return", val |-> arg.val.ok] /\ nextId = start

C11_Witness ==
  /\ op = "unwrap" /\ arg.ctor = "CustomError"
  /\ arg.val = makeResultOk(Prim("number", "0"))
  /\ out = [kind |-> "return", val |-> Prim("number", "0")]

\* C12: unwrap of an Err variant always raises and never returns; what it
\* raises is an instance of K (the constructor given, Error by default)
\* whose message is err.message: err itself when err is an instance of K,
\* and otherwise a new exception with err at cause.error.
C12_UnwrapErrRaises ==
  op = "unwrap" /\ ~arg.val.isOk =>
    /\ out.kind = "raise"
    /\ WellTypedErr(arg.val.err) =>
         /\ IsInstanceOfKind(out.val, UnwrapKind)
         /\ out.val.message = arg.val.err.message
         /\ IF IsInstanceOfKind(arg.val.err, UnwrapKind)
            THEN out.val = arg.val.err /\ nextId = start
            ELSE /\ IsFresh(out.val) /\ out.val.cls = UnwrapKind
                 /\ IsCauseOf(out.val.cause, arg.val.err)

C12_Witness ==
  /\ op = "unwrap" /\ arg.ctor = "MoreCustomError"
  /\ arg.val = makeResultErr(Plain("Object", "data", Str("failed"), Undefined))
  /\ out.kind = "raise" /\ out.val.cls = "MoreCustomError"
  /\ out.val.message = Str("failed")
  /\ out.val.cause.error = arg.val.err

\* C14: makeResultOk(v) is {isOk: true, ok: v, err: undefined} and
\* makeResultErr(e) is {isOk: false, ok: undefined, err: e} with err the
\* same object e, for every v and e; neither constructor fails.
C14_ConstructorsBuildTheirVariant ==
  /\ op = "makeResultOk" =>
       /\ out.kind = "return"
       /\ out.val.isOk /\ out.val.ok = arg.val /\ out.val.err = Undefined
  /\ op = "makeResultErr" =>
       /\ out.kind = "return"
       /\ ~out.val.isOk /\ out.val.ok = Undefined /\ out.val.err = arg.val

C14_Witness ==
  /\ op = "makeResultErr"
  /\ arg.val = Plain("Error", "data", Str("fail"), Undefined)
  /\ out.kind = "return" /\ ~out.val.isOk /\ out.val.err = arg.val

\* C15: for every Result r, isResultOk(r) is the discriminator r.isOk and
\* isResultErr(r) is its negation, so exactly one of the two guards is
\* true, also for a Result that wrap produced.
C15_GuardsFollowDiscriminator ==
  op \in {"isResultOk", "isResultErr"} =>
    /\ out.kind = "return"
    /\ out.val = Bool(IF op = "isResultOk" THEN arg.val.isOk ELSE ~arg.val.isOk)
    /\ isResultOk(arg.val) # isResultErr(arg.val)

C15_Witness ==
  /\ op = "isResultErr"
  /\ ~arg.val.isOk /\ arg.val.err.id > 0
  /\ out = [kind |-> "return", val |-> Bool(TRUE)]

\* The last call produced a Result.
ProducedResult ==
  /\ op \in {"makeResultOk", "makeResultErr", "wrap", "wrapUnknown",
             "wrapInstanceOf"}
  /\ out.kind = "return"

\* Exactly one payload of r is populated, and the discriminator says which.
OnePayload(r) ==
  /\ r.ok # Undefined <=> r.isOk
  /\ r.err # Undefined <=> ~r.isOk

\* C16 as stated: every Result produced by makeResultOk, makeResultErr,
\* wrap, wrapUnknown or wrapInstanceOf has exactly one payload different
\* from undefined, the one the discriminator names, for every value the
\* operation given to wrap can return or raise.
C16_Original == ProducedResult => OnePayload(out.val)

\* C16 amended: every such Result has exactly one payload different from
\* undefined, the one the discriminator names, for every raised value and
\* for every success value other than undefined (which the static type
\* Something excludes).
C16_OnePayloadUnlessUndefined ==
  ProducedResult /\ ~(out.val.isOk /\ Subject(arg) = Undefined) =>
    OnePayload(out.val)

C16_Witness ==
  /\ op = "wrapUnknown"
  /\ arg.fn = [does |-> "raise", val |-> Undefined]
  /\ out.kind = "return" /\ ~out.val.isOk
  /\ out.val.ok = Undefined /\ out.val.err # Undefined

\* The last two calls were exceptionToErr(x), which returned y, and then
\* the named operation on y.
RoundTrip(second) ==
  op = second /\ from.op = "exceptionToErr" /\ from.kind = "return"

\* No value: what following a cause.error link gives when there is none.
Absent == Prim("absent", "")

CauseError(v) ==
  IF IsObject(v) /\ IsObject(v.cause) /\ v.cause.msgProp = "none"
  THEN v.cause.error ELSE Absent

\* x is r, r.cause.error or r.cause.error.cause.error.
Recoverable(x, r) ==
  x \in {r, CauseError(r), CauseError(CauseError(r))}

\* C17: for every raised value x and every constructor K,
\* errToException(exceptionToErr(x), K) returns an exception whose message
\* equals the message of exceptionToErr(x) and from which x is recovered
\* by following at most two cause.error links.
C17_RoundTrip ==
  RoundTrip("errToException") =>
    /\ out.kind = "return"
    /\ out.val.msgProp \in {"data", "getter"}
    /\ out.val.message = arg.val.message
    /\ Recoverable(from.val, out.val)

\* C18 as stated, the two sides evaluated as written: the result of
\* exceptionToErr(exceptionToErr(x)) is the same object as the result of
\* evaluating exceptionToErr(x) once more, for every x.
C18_Original ==
  RoundTrip("exceptionToErr") =>
    LET again == exceptionToErr(from.val, nextId) IN
    again.kind = "return" /\ out.val = again.val

\* C18 amended: exceptionToErr returns its own results unchanged: when
\* exceptionToErr(x) returned y, exceptionToErr(y) returns the same object
\* y and constructs nothing.
C18_OwnResultUnchanged ==
  RoundTrip("exceptionToErr") =>
    out = [kind |-> "return", val |-> arg.val] /\ nextId = start

C18_Witness ==
  /\ RoundTrip("exceptionToErr")
  /\ from.val = Prim("number", "67")
  /\ arg.val.message = Str("Unknown error")
  /\ arg.val.cause.error = from.val
  /\ out = [kind |-> "return", val |-> arg.val]

\* C20: wrap dispatches and does nothing else: without a filter
\* constructor (omitted or undefined) its outcome is that of
\* wrapUnknown(fn), with a constructor C that of wrapInstanceOf(fn, C):
\* the same Result returned or the same value raised.
C20_WrapDispatches ==
  op = "wrap" =>
    LET r == IF arg.ctor = NoConstructor
             THEN wrapUnknown(arg.fn, start)
             ELSE wrapInstanceOf(arg.fn, arg.ctor, start) IN
    out = [kind |-> r.kind, val |-> r.val] /\ nextId = r.nid

C20_Witness ==
  /\ op = "wrap" /\ arg.ctor = "CustomError"
  /\ arg.fn = [does |-> "raise", val |-> Plain("Error", "data", Str("fail"), Undefined)]
  /\ out = [kind |-> "raise", val |-> arg.fn.val]

IsOkVariant(r) == r.isOk

IsErrVariant(r) == ~r.isOk

\* C13: for every sequence of N Results with k Ok variants, N = 0
\* included, groupResults returns oks of length k and errs of length
\* N - k: the ok payloads of the Ok variants and the err payloads of the
\* Err variants, each in input order, nothing dropped, duplicated or
\* reordered.
C13_GroupResultsPartitions ==
  op = "groupResults" =>
    LET results == arg.val.items
        N == Len(results)
        k == Cardinality({ i \in 1..N : results[i].isOk })
        okVariants == SelectSeq(results, IsOkVariant)
        errVariants == SelectSeq(results, IsErrVariant)
    IN /\ out.kind = "return"
       /\ Len(out.val.oks) = k /\ Len(out.val.errs) = N - k
       /\ \A j \in 1..k : out.val.oks[j] = okVariants[j].ok
       /\ \A j \in 1..(N - k) : out.val.errs[j] = errVariants[j].err

C13_Witness ==
  /\ op = "groupResults" /\ batch.pc = "idle"
  /\ arg.val.items =
       << makeResultOk(Prim("number", "0")),
          makeResultErr(Plain("Object", "data", Str("failed"), Undefined)),
          makeResultOk(Str("ab")) >>
  /\ out.val.oks = << Prim("number", "0"), Str("ab") >>
  /\ out.val.errs = << Plain("Object", "data", Str("failed"), Undefined) >>

IsReturning(fn) == fn.does = "return"

IsRaising(fn) == fn.does = "raise"

\* e is what a raised x is converted to: x itself when x is error-like,
\* else an Err with message "Unknown error" and cause {error: x}.
IsConversionOf(e, x) ==
  IF ErrorLike(x) THEN e = x
  ELSE /\ IsObject(e) /\ e.msgProp = "data"
       /\ e.message = Str("Unknown error")
       /\ IsCauseOf(e.cause, x)

\* C19: a batch of N operations, each wrapped in turn by wrap without a
\* filter, runs all N of them, no raise keeping the later ones from
\* running, and groupResults over the N Results gives the returned values
\* in order as oks and the converted raised values in order as errs, N
\* payloads in all.
C19_BatchCompletes ==
  batch.pc \in {"grouped", "aborted"} =>
    LET N == Len(batch.fns)
        returning == SelectSeq(batch.fns, IsReturning)
        raising == SelectSeq(batch.fns, IsRaising)
    IN /\ batch.pc = "grouped"
       /\ Len(batch.results) = N
       /\ Len(out.val.oks) + Len(out.val.errs) = N
       /\ Len(out.val.oks) = Len(returning)
       /\ \A j \in 1..Len(returning) : out.val.oks[j] = returning[j].val
       /\ \A j \in 1..Len(raising) :
            IsConversionOf(out.val.errs[j], raising[j].val)

\* fn raised an instance of the filter constructor.
FilterCaught ==
  FilterCall /\ arg.fn.does = "raise"
             /\ IsInstanceOfKind(arg.fn.val, arg.ctor)

\* The call returned makeResultErr(exceptionToErr(e)), e the raised value.
ReturnedConversion ==
  LET c == exceptionToErr(arg.fn.val, start) IN
  /\ c.kind = "return"
  /\ out = [kind |-> "return", val |-> makeResultErr(c.val)]
  /\ nextId = c.nid

\* C21 as stated: with a filter constructor C and a raised instance e of
\* C, wrap(fn, C) equals makeResultErr(exceptionToErr(e)), whatever the
\* shape of C's instances.
C21_Original == FilterCaught => ReturnedConversion

\* C21 amended: with a filter constructor C and a raised instance e of C,
\* wrap(fn, C) returns makeResultErr(e); that equals
\* makeResultErr(exceptionToErr(e)) when e is an Error instance or a
\* non-array object with a string message, which is every instance when C
\* is Error or a subclass of it.
C21_FilterErrIsConversionOfErrorLike ==
  FilterCaught =>
    /\ out = [kind |-> "return", val |-> makeResultErr(arg.fn.val)]
    /\ ErrorLike(arg.fn.val) => ReturnedConversion
    /\ "Error" \in ProtoChain(arg.ctor) => ErrorLike(arg.fn.val)

C21_Witness ==
  /\ op = "wrap" /\ arg.ctor = "Foo"
  /\ arg.fn = [does |-> "raise",
               val |-> Plain("Foo", "data", Str("foreign"), Undefined)]
  /\ ReturnedConversion /\ out.val.err = arg.fn.val

\* The last call was one of the three wrap entry points.
WrapCall == op \in {"wrap", "wrapUnknown", "wrapInstanceOf"}

ReadingOps ==
  {"groupResults", "unwrap", "isResultOk", "isResultErr", "exceptionToErr",
   "errToException"}

\* C23: groupResults leaves the sequence and every Result in it as they
\* were, unwrap, isResultOk and isResultErr leave the Result as it was,
\* exceptionToErr leaves the caught value as it was, and errToException
\* leaves the Err as it was, also when it returns a new exception whose
\* cause refers to the Err.
C23_ArgumentsLeftUnchanged ==
  op \in ReadingOps =>
    /\ argAfter = arg.val
    /\ op = "errToException" /\ out.kind = "return" /\ out.val # arg.val =>
         out.val.cause.error = arg.val

C23_Witness ==
  /\ op = "errToException" /\ arg.ctor = "CustomError"
  /\ arg.val = Plain("Object", "data", Str("my error"), DataCause)
  /\ out.kind = "return" /\ IsFresh(out.val)
  /\ out.val.cause.error = arg.val
  /\ argAfter = arg.val

\* The Err or exception a value carries: the err payload of a Result, or
\* the value itself.
Carried(v) == IF IsResult(v) THEN v.err ELSE v

\* The objects reached from v by following cause and cause.error links,
\* v included; an object that is its own cause is reached and not
\* followed further.
RECURSIVE Chain(_)
Chain(v) ==
  IF ~IsObject(v) THEN {}
  ELSE {v} \cup (IF v.cause = SelfRef THEN {} ELSE Chain(v.cause))
           \cup Chain(v.error)

\* Following the links from v never reaches the same object twice.
Acyclic(v) == \A x \in Chain(v) : x.cause # SelfRef

\* The last call gave an Err or an exception: returned by exceptionToErr,
\* errToException or a wrap entry point, or raised by unwrap.
GaveErr ==
  \/ op \in {"exceptionToErr", "errToException"} /\ out.kind = "return"
  \/ WrapCall /\ ReturnedErr
  \/ op = "unwrap" /\ out.kind = "raise"

\* C24 as stated: the cause chain of every Err or exception the
\* operations give is acyclic, for every input, raised values that are
\* cyclic structures included.
C24_Original == GaveErr => Acyclic(Carried(out.val))

\* C24 amended: the operations add no cycle: no object they construct
\* lies on a cycle, and the chain of what they give is acyclic whenever
\* the chain of the value they were given is.
C24_NoCycleAdded ==
  GaveErr =>
    /\ \A x \in Chain(Carried(out.val)) : IsFresh(x) => x.cause # SelfRef
    /\ Acyclic(Carried(Subject(arg))) => Acyclic(Carried(out.val))

C24_Witness ==
  /\ op = "errToException" /\ arg.ctor = "Error2"
  /\ arg.val = Plain("Object", "data", Str("my error"), DataCause)
  /\ out.kind = "return"
  /\ Cardinality(Chain(out.val)) = 4
  /\ Acyclic(out.val)

\* v with the objects this call constructed renumbered as the first
\* objects ever constructed: v up to the identity of what is new in it.
RECURSIVE Rebase(_)
Rebase(v) ==
  IF IsResult(v)
  THEN [isOk |-> v.isOk, ok |-> Rebase(v.ok), err |-> Rebase(v.err)]
  ELSE IF ~IsValue(v) \/ ~IsObject(v) THEN v
  ELSE [v EXCEPT !.id = IF @ >= start THEN @ - start + 1 ELSE @,
                 !.message = Rebase(@), !.cause = Rebase(@),
                 !.error = Rebase(@)]

\* The last call made again as the first call ever, on the same arguments
\* and the same fn.
Replay ==
  CASE op = "exceptionToErr" -> exceptionToErr(arg.val, 1)
    [] op = "errToException" -> errToException(arg.val, arg.ctor, 1)
    [] op = "wrapUnknown" -> wrapUnknown(arg.fn, 1)
    [] op = "wrapInstanceOf" -> wrapInstanceOf(arg.fn, arg.ctor, 1)
    [] op = "wrap" -> wrap(arg.fn, arg.ctor, 1)
    [] op = "unwrap" -> unwrap(arg.val, arg.ctor, 1)
    [] op = "groupResults" -> Return(groupResults(arg.val.items), 1)

ConvertsErr ==
  /\ op = "errToException"
  /\ WellTypedErr(arg.val) /\ NotInstanceOfKind(arg.val, arg.ctor)

C27_MessageIsString ==
  /\ op = "exceptionToErr" /\ out.kind = "return" => HasStringMessage(out.val)
  /\ NoFilterCall /\ ReturnedErr => HasStringMessage(out.val.err)

\* C28: an array or a function that is not an Error instance is never
\* returned by exceptionToErr as it is, also when it has a string message:
\* it becomes the cause.error of a new Err with message "Unknown error".
C28_ArraysAndFunctionsAreWrapped ==
  /\ op = "exceptionToErr"
  /\ arg.val.t \in {"object", "function"}
  /\ arg.val.cls \in {"Array", "Function"}
  =>
  /\ out.kind = "return"
  /\ out.val # arg.val
  /\ IsUnknownErrOf(out.val, arg.val)

C28_Witness ==
  /\ op = "exceptionToErr"
  /\ arg.val = Plain("Array", "data", Str("array"), Undefined)
  /\ out.kind = "return" /\ out.val.message = Str("Unknown error")
  /\ out.val.cause.error = arg.val

\* The last two calls were wrap(fn) without a filter, which returned a
\* Result, and unwrap of that Result with the default constructor.
UnwrapOfWrap ==
  /\ op = "unwrap" /\ arg.ctor = NoConstructor
  /\ from.op = "wrap"

\* unwrap raised a new Error with message m.
RaisedNewError(m) ==
  /\ out.kind = "raise" /\ IsFresh(out.val)
  /\ out.val.cls = "Error" /\ out.val.message = m

\* C29 as stated: unwrap(wrap(fn)) returns v when fn returns v, raises
\* the same object e when fn raises an Error instance e, and when fn
\* raises anything else x raises a new Error: with x.message and x at
\* cause.error when x has a string message, with "Unknown error" and x at
\* cause.error.cause.error otherwise.
C29_Original ==
  UnwrapOfWrap =>
    LET x == from.val IN
    IF arg.val.isOk THEN out = [kind |-> "return", val |-> x]
    ELSE IF IsInstanceOfKind(x, "Error")
    THEN out = [kind |-> "raise", val |-> x]
    ELSE IF HasStringMessage(x)
    THEN RaisedNewError(x.message) /\ CauseError(out.val) = x
    ELSE /\ RaisedNewError(Str("Unknown error"))
         /\ CauseError(CauseError(out.val)) = x

\* C29 amended: as above, with "x has a string message" read as: x is a
\* non-array object (typeof "object") whose message is a string; an array
\* or a function with a string message goes the "Unknown error" way.
C29_UnwrapOfWrapReproduces ==
  UnwrapOfWrap =>
    LET x == from.val IN
    IF arg.val.isOk THEN out = [kind |-> "return", val |-> x]
    ELSE IF IsInstanceOfKind(x, "Error")
    THEN out = [kind |-> "raise", val |-> x] /\ nextId = start
    ELSE IF ErrorLike(x)
    THEN RaisedNewError(x.message) /\ CauseError(out.val) = x
    ELSE /\ RaisedNewError(Str("Unknown error"))
         /\ CauseError(CauseError(out.val)) = x

C29_Witness ==
  /\ UnwrapOfWrap /\ from.val = Str("ab") /\ ~arg.val.isOk
  /\ RaisedNewError(Str("Unknown error"))
  /\ out.val.cause.error = arg.val.err
  /\ out.val.cause.error.cause.error = Str("ab")

\* The last call was a cycle r(n+1) = wrap(() => unwrap(rn)) on a Result
\* that the cycle before it returned.
SecondCycle == op = "rewrap" /\ from.op = "rewrap"

\* C30: a cycle wrap(() => unwrap(r)) with the default constructor turns
\* an Ok with value v into an Ok with value v, and an Err into an Err
\* whose err is an Error instance: r.err itself, or a new one with r.err
\* at cause.error. A further cycle returns the same err object: the cause
\* chain does not grow. (r.err is a value whose prototype chain can be
\* read.)
C30_CyclesStabilise ==
  /\ op = "rewrap" /\ (arg.val.isOk \/ arg.val.err.trap # "throws") =>
       /\ out.kind = "return"
       /\ IF arg.val.isOk
          THEN out.val.isOk /\ out.val.ok = arg.val.ok
          ELSE /\ ~out.val.isOk
               /\ IsInstanceOfKind(out.val.err, "Error")
               /\ \/ out.val.err = arg.val.err
                  \/ IsFresh(out.val.err) /\ CauseError(out.val.err) = arg.val.err
  /\ SecondCycle =>
       /\ out = [kind |-> "return", val |-> arg.val]
       /\ nextId = start

C30_Witness ==
  /\ SecondCycle
  /\ from.val = makeResultErr(Plain("Object", "data", Str("failed"), Undefined))
  /\ arg.val.err.cls = "Error" /\ arg.val.err.id > 0
  /\ arg.val.err.cause.error = from.val.err
  /\ out.val.err = arg.val.err

====
